---------------------------- MODULE Spec2Model ----------------------------
(***************************************************************************)
(* Model of scripts/ci/check_sync_reply_allowlist.py: the allowlist parser *)
(* (parse_allowlist), the source scanner (collect_actual) and the driver   *)
(* and reconciler (main).                                                  *)
(*                                                                         *)
(* Text is a sequence of one-character strings, so that strip, split,      *)
(* startswith, endswith, int() and the regular expression REPLY_RE are     *)
(* computed character by character.  A file is the sequence of its         *)
(* physical lines (what str.splitlines() returns), or is missing.          *)
(***************************************************************************)
EXTENDS Integers, Sequences, FiniteSets, TLC

VARIABLES
    allowlist,      \* the allowlist file: Missing, or File(its lines)
    tree,           \* the source tree: tracked path -> Missing, or File(its lines)
    pc,             \* position of main(): "parse", "scan", "reconcile", "done"
    parsed,         \* what parse_allowlist returned or raised (NoResult before)
    scanned,        \* what collect_actual returned or raised (NoResult before)
    exitStatus,     \* the value main() returned (NoExit before)
    stdout,         \* messages printed to sys.stdout, in order
    stderr,         \* messages printed to sys.stderr, in order
    prev,           \* results of the previous run, kept across an edit of the tree
    lastEdit        \* the edit of the tree made since the previous run (NoEdit if none)

vars == <<allowlist, tree, pc, parsed, scanned, exitStatus, stdout, stderr,
          prev, lastEdit>>

-----------------------------------------------------------------------------
(* Bounds of the model *)

MaxRules == 2
MaxSrcLines == 2
MaxFrags == 3
MaxEditLines == 1
MaxInserted == 2

-----------------------------------------------------------------------------
(* Characters *)

Lower == {"a","b","c","d","e","f","g","h","i","j","k","l","m",
          "n","o","p","q","r","s","t","u","v","w","x","y","z"}
Upper == {"A","B","C","D","E","F","G","H","I","J","K","L","M",
          "N","O","P","Q","R","S","T","U","V","W","X","Y","Z"}
Digit == {"0","1","2","3","4","5","6","7","8","9"}

\* str.strip() and \s: the whitespace that can occur inside a physical line
Whitespace == {" ", "\t"}

\* the character class [A-Za-z0-9_] of REPLY_RE (and \w, on ASCII text)
WordChar == Lower \cup Upper \cup Digit \cup {"_"}

\* the characters of the model in code-point order (for sorted())
CodeOrder ==
    <<"\t"," ","#","(",")","+","-",".","/",
      "0","1","2","3","4","5","6","7","8","9",";","<","=",
      "A","B","C","D","E","F","G","H","I","J","K","L","M",
      "N","O","P","Q","R","S","T","U","V","W","X","Y","Z","_",
      "a","b","c","d","e","f","g","h","i","j","k","l","m",
      "n","o","p","q","r","s","t","u","v","w","x","y","z","|">>

OrdTable ==
    [c \in {CodeOrder[i] : i \in 1..Len(CodeOrder)} |->
        CHOOSE i \in 1..Len(CodeOrder) : CodeOrder[i] = c]

Ord(c) == OrdTable[c]

DigitVal(c) == Ord(c) - Ord("0")

-----------------------------------------------------------------------------
(* Python string operations *)

startswith(s, p) == Len(s) >= Len(p) /\ SubSeq(s, 1, Len(p)) = p

endswith(s, p) == Len(s) >= Len(p) /\ SubSeq(s, Len(s) - Len(p) + 1, Len(s)) = p

\* p in s
contains(s, p) ==
    \E i \in 1..(Len(s) - Len(p) + 1) : SubSeq(s, i, i + Len(p) - 1) = p

\* the first position from i on that holds no whitespace (Len(s) + 1 if none)
RECURSIVE SkipSpace(_, _)
SkipSpace(s, i) ==
    IF i <= Len(s) /\ s[i] \in Whitespace THEN SkipSpace(s, i + 1) ELSE i

\* the last position up to j that holds no whitespace (0 if none)
RECURSIVE SkipSpaceBack(_, _)
SkipSpaceBack(s, j) ==
    IF j >= 1 /\ s[j] \in Whitespace THEN SkipSpaceBack(s, j - 1) ELSE j

strip(s) == SubSeq(s, SkipSpace(s, 1), SkipSpaceBack(s, Len(s)))

\* s.find(sep, i): the first position from i on that holds sep (0 if none)
RECURSIVE find(_, _, _)
find(s, sep, i) ==
    IF i > Len(s) THEN 0
    ELSE IF s[i] = sep THEN i
    ELSE find(s, sep, i + 1)

\* s.split(sep, maxsplit): cut at the first maxsplit separators
RECURSIVE split(_, _, _)
split(s, sep, maxsplit) ==
    IF maxsplit = 0 \/ find(s, sep, 1) = 0 THEN <<s>>
    ELSE <<SubSeq(s, 1, find(s, sep, 1) - 1)>>
         \o split(SubSeq(s, find(s, sep, 1) + 1, Len(s)), sep, maxsplit - 1)

\* int(text): an optional sign, then digits, single underscores between them
RECURSIVE DigitsValue(_, _)
DigitsValue(ds, acc) ==
    IF ds = <<>> THEN acc
    ELSE IF Head(ds) = "_" THEN DigitsValue(Tail(ds), acc)
    ELSE DigitsValue(Tail(ds), 10 * acc + DigitVal(Head(ds)))

int(text) ==
    LET t    == strip(text)
        neg  == t # <<>> /\ t[1] = "-"
        body == IF t # <<>> /\ t[1] \in {"+", "-"} THEN Tail(t) ELSE t
        wellFormed ==
            /\ body # <<>>
            /\ \A i \in 1..Len(body) : body[i] \in Digit \cup {"_"}
            /\ body[1] \in Digit
            /\ body[Len(body)] \in Digit
            /\ \A i \in 1..(Len(body) - 1) : ~(body[i] = "_" /\ body[i + 1] = "_")
    IN  IF wellFormed
        THEN [ok |-> TRUE,
              value |-> IF neg THEN 0 - DigitsValue(body, 0) ELSE DigitsValue(body, 0)]
        ELSE [ok |-> FALSE, value |-> 0]

\* a < b as Python compares strings: by code point, a proper prefix first
RECURSIVE StrLess(_, _)
StrLess(a, b) ==
    IF b = <<>> THEN FALSE
    ELSE IF a = <<>> THEN TRUE
    ELSE IF Head(a) # Head(b) THEN Ord(Head(a)) < Ord(Head(b))
    ELSE StrLess(Tail(a), Tail(b))

-----------------------------------------------------------------------------
(* collections.Counter over (path, symbol) keys: a function on the keys stored *)

EmptyCounter == <<>>

CounterGet(c, k) == IF k \in DOMAIN c THEN c[k] ELSE 0

\* c[k] += n
CounterAdd(c, k, n) ==
    [x \in DOMAIN c \cup {k} |-> CounterGet(c, x) + (IF x = k THEN n ELSE 0)]

RECURSIVE SumOver(_, _)
SumOver(c, keys) ==
    IF keys = {} THEN 0
    ELSE LET k == CHOOSE x \in keys : TRUE
         IN  c[k] + SumOver(c, keys \ {k})

\* mutant: len(c), the number of keys
CounterLen(c) == Cardinality(DOMAIN c)

\* sum(c.values())
CounterSum(c) == SumOver(c, DOMAIN c)

\* mutant: the totals are compared, not the keys
CounterNotEqualTotals(c, d) == CounterSum(c) # CounterSum(d)

\* mutant: only the keys of c are compared
CounterNotEqualLeftKeys(c, d) == \E k \in DOMAIN c : c[k] # CounterGet(d, k)

\* c != d  (Counter.__eq__: a missing key counts as zero)
CounterNotEqual(c, d) ==
    \E k \in DOMAIN c \cup DOMAIN d : CounterGet(c, k) # CounterGet(d, k)

-----------------------------------------------------------------------------
(* Program constants *)

menu_c          == <<"s","r","c","/","m","e","n","u",".","c">>
wm_c            == <<"s","r","c","/","w","m",".","c">>
wm_desktop_c    == <<"s","r","c","/","w","m","_","d","e","s","k","t","o","p",".","c">>
wm_input_keys_c == <<"s","r","c","/","w","m","_","i","n","p","u","t","_",
                     "k","e","y","s",".","c">>

DEFAULT_TRACKED_FILES == <<menu_c, wm_c, wm_desktop_c, wm_input_keys_c>>

xcb_poll_for_reply == <<"x","c","b","_","p","o","l","l","_","f","o","r","_",
                        "r","e","p","l","y">>

IGNORED_REPLY_SYMBOLS == {xcb_poll_for_reply}

XcbPrefix       == <<"x","c","b","_">>
ReplySuffix     == <<"_","r","e","p","l","y">>
FromReplySuffix == <<"_","f","r","o","m","_","r","e","p","l","y">>
BoundMarker     == <<"b","o","u","n","d","<","=">>

\* a file on disk: path.is_file() and the lines read_text().splitlines() gives
File(lines) == [exists |-> TRUE, lines |-> lines]
Missing     == [exists |-> FALSE, lines |-> <<>>]

-----------------------------------------------------------------------------
(* Results of parse_allowlist and collect_actual: returned or raised *)

NoResult == [status |-> "none", counter |-> EmptyCounter, total |-> 0,
             kind |-> "", lineno |-> 0, path |-> <<>>]

Returned(counter, total) ==
    [status |-> "ok", counter |-> counter, total |-> total,
     kind |-> "", lineno |-> 0, path |-> <<>>]

\* raise ValueError(...): nothing is returned
Raised(kind, lineno, path) ==
    [status |-> "error", counter |-> EmptyCounter, total |-> 0,
     kind |-> kind, lineno |-> lineno, path |-> path]

-----------------------------------------------------------------------------
(* parse_allowlist *)

\* a line the parser skips: empty after strip(), or a comment
SkippedLine(raw) == strip(raw) = <<>> \/ startswith(strip(raw), <<"#">>)

\* [part.strip() for part in line.split("|", 3)]
Parts(raw) ==
    LET cut == split(strip(raw), "|", 3)
    IN  [i \in 1..Len(cut) |-> strip(cut[i])]

\* mutant: the rationale is not checked
RuleErrorNoRationale(raw, tracked_set) ==
    LET parts == Parts(raw)
    IN  IF Len(parts) # 4 THEN "fields"
        ELSE IF parts[1] \notin tracked_set THEN "path"
        ELSE IF ~startswith(parts[2], XcbPrefix) \/ ~endswith(parts[2], ReplySuffix)
             THEN "symbol"
        ELSE IF endswith(parts[2], FromReplySuffix) THEN "helper"
        ELSE IF ~int(parts[3]).ok THEN "count_invalid"
        ELSE IF int(parts[3]).value <= 0 THEN "count_positive"
        ELSE ""

\* mutant: the parse-helper suffix is not checked
RuleErrorNoHelper(raw, tracked_set) ==
    LET parts == Parts(raw)
    IN  IF Len(parts) # 4 THEN "fields"
        ELSE IF parts[1] \notin tracked_set THEN "path"
        ELSE IF ~startswith(parts[2], XcbPrefix) \/ ~endswith(parts[2], ReplySuffix)
             THEN "symbol"
        ELSE IF ~int(parts[3]).ok THEN "count_invalid"
        ELSE IF int(parts[3]).value <= 0 THEN "count_positive"
        ELSE IF ~contains(parts[4], BoundMarker) THEN "rationale"
        ELSE ""

\* the checks of one rule line, in the code's order: "" when the line passes
RuleError(raw, tracked_set) ==
    LET parts == Parts(raw)
    IN  IF Len(parts) # 4 THEN "fields"
        ELSE IF parts[1] \notin tracked_set THEN "path"
        ELSE IF ~startswith(parts[2], XcbPrefix) \/ ~endswith(parts[2], ReplySuffix)
             THEN "symbol"
        ELSE IF endswith(parts[2], FromReplySuffix) THEN "helper"
        ELSE IF ~int(parts[3]).ok THEN "count_invalid"
        ELSE IF int(parts[3]).value <= 0 THEN "count_positive"
        ELSE IF ~contains(parts[4], BoundMarker) THEN "rationale"
        ELSE ""

\* mutant: expected[(rel_path, symbol)] = count
AddRuleOverwrite(expected, raw) ==
    LET parts == Parts(raw)
        key   == <<parts[1], parts[2]>>
    IN  [x \in DOMAIN expected \cup {key} |->
            IF x = key THEN int(parts[3]).value ELSE expected[x]]

\* expected[(rel_path, symbol)] += count
AddRule(expected, raw) ==
    LET parts == Parts(raw)
    IN  CounterAdd(expected, <<parts[1], parts[2]>>, int(parts[3]).value)

\* the loop over enumerate(lines, start=1)
RECURSIVE ParseLines(_, _, _, _)
ParseLines(lines, lineno, expected, tracked_set) ==
    IF lineno > Len(lines) THEN Returned(expected, CounterSum(expected))
    ELSE IF SkippedLine(lines[lineno])
         THEN ParseLines(lines, lineno + 1, expected, tracked_set)
    ELSE IF RuleError(lines[lineno], tracked_set) # ""
         THEN Raised(RuleError(lines[lineno], tracked_set), lineno, <<>>)
    ELSE ParseLines(lines, lineno + 1, AddRule(expected, lines[lineno]), tracked_set)

\* mutant: enumerate(lines) without start=1
parse_allowlist_from_zero(file, tracked_files) ==
    LET r == ParseLines(file.lines, 1, EmptyCounter,
                        {tracked_files[i] : i \in 1..Len(tracked_files)})
    IN  IF ~file.exists THEN Raised("allowlist_not_found", 0, <<>>)
        ELSE IF r.status = "error" THEN [r EXCEPT !.lineno = @ - 1]
        ELSE r

parse_allowlist(file, tracked_files) ==
    IF ~file.exists THEN Raised("allowlist_not_found", 0, <<>>)
    ELSE ParseLines(file.lines, 1, EmptyCounter,
                    {tracked_files[i] : i \in 1..Len(tracked_files)})

-----------------------------------------------------------------------------
(* REPLY_RE = \b(xcb_[A-Za-z0-9_]+_reply)\s*\(  and collect_actual *)

\* \b before position i (1..Len(s)+1)
WordBoundary(s, i) ==
    (i > 1 /\ s[i - 1] \in WordChar) # (i <= Len(s) /\ s[i] \in WordChar)

\* mutant: "(" has to follow at once
AfterSpacesNone(s, i) == i

\* \s* from position i: the position after the whitespace
AfterSpaces(s, i) == SkipSpace(s, i)

\* mutant: only the first match of a line is found (search, not finditer)
finditer_first(s, i) ==
    LET starts == {k \in i..Len(s) :
                     /\ k = 1 \/ s[k - 1] \notin WordChar
                     /\ k + 3 <= Len(s)
                     /\ SubSeq(s, k, k + 3) = XcbPrefix
                     /\ \E e \in (k + 4)..Len(s) :
                           /\ \A j \in (k + 4)..e : s[j] \in WordChar
                           /\ e + 6 <= Len(s)
                           /\ SubSeq(s, e + 1, e + 6) = ReplySuffix
                           /\ AfterSpaces(s, e + 7) <= Len(s)
                           /\ s[AfterSpaces(s, e + 7)] = "("}
    IN  IF starts = {} THEN <<>>
        ELSE LET k == CHOOSE x \in starts : \A y \in starts : x <= y
                 e == CHOOSE x \in (k + 4)..Len(s) :
                        /\ x + 6 <= Len(s)
                        /\ SubSeq(s, x + 1, x + 6) = ReplySuffix
                        /\ (x + 7 > Len(s) \/ s[x + 7] \notin WordChar)
             IN  <<SubSeq(s, k, e + 6)>>

\* mutant: symbols ending in _from_reply are counted
ExcludedIgnoredOnly(symbol) == symbol \in IGNORED_REPLY_SYMBOLS

\* mutant: the line is not stripped before the test
CommentLineUnstripped(raw) == startswith(raw, <<"/", "/">>)

\* the ends e of a body s[i+4..e] after which "_reply", \s* and "(" match
BodyEnds(s, i) ==
    {e \in (i + 4)..Len(s) :
        /\ \A j \in (i + 4)..e : s[j] \in WordChar
        /\ e + 6 <= Len(s)
        /\ SubSeq(s, e + 1, e + 6) = ReplySuffix
        /\ AfterSpaces(s, e + 7) <= Len(s)
        /\ s[AfterSpaces(s, e + 7)] = "("}

\* REPLY_RE.match at position i: the body is greedy, so the longest one wins
MatchAt(s, i) ==
    IF /\ WordBoundary(s, i)
       /\ i + 3 <= Len(s)
       /\ SubSeq(s, i, i + 3) = XcbPrefix
       /\ BodyEnds(s, i) # {}
    THEN LET e == CHOOSE x \in BodyEnds(s, i) : \A y \in BodyEnds(s, i) : y <= x
         IN  [matched |-> TRUE, symbol |-> SubSeq(s, i, e + 6),
              next |-> AfterSpaces(s, e + 7) + 1]
    ELSE [matched |-> FALSE, symbol |-> <<>>, next |-> i + 1]

\* REPLY_RE.finditer(s): group(1) of the non-overlapping matches, left to right
RECURSIVE finditer(_, _)
finditer(s, i) ==
    IF i > Len(s) THEN <<>>
    ELSE IF MatchAt(s, i).matched
         THEN <<MatchAt(s, i).symbol>> \o finditer(s, MatchAt(s, i).next)
    ELSE finditer(s, i + 1)

\* the exclusions of collect_actual
Excluded(symbol) ==
    symbol \in IGNORED_REPLY_SYMBOLS \/ endswith(symbol, FromReplySuffix)

\* a line collect_actual skips whole
CommentLine(raw) == startswith(strip(raw), <<"/", "/">>)

\* the loop over the matches of one line
RECURSIVE CountMatches(_, _, _)
CountMatches(symbols, rel_path, acc) ==
    IF symbols = <<>> THEN acc
    ELSE IF Excluded(Head(symbols)) THEN CountMatches(Tail(symbols), rel_path, acc)
    ELSE CountMatches(Tail(symbols), rel_path,
             [counter |-> CounterAdd(acc.counter, <<rel_path, Head(symbols)>>, 1),
              total |-> acc.total + 1])

ScanLine(raw, rel_path, acc) ==
    IF CommentLine(raw) THEN acc
    ELSE CountMatches(finditer(raw, 1), rel_path, acc)

\* the loop over the lines of one file
RECURSIVE ScanFile(_, _, _)
ScanFile(lines, rel_path, acc) ==
    IF lines = <<>> THEN acc
    ELSE ScanFile(Tail(lines), rel_path, ScanLine(Head(lines), rel_path, acc))

\* the loop over tracked_files
RECURSIVE ScanTree(_, _, _, _)
ScanTree(repo, tracked_files, n, acc) ==
    IF n > Len(tracked_files) THEN Returned(acc.counter, acc.total)
    ELSE IF ~repo[tracked_files[n]].exists
         THEN Raised("tracked_not_found", 0, tracked_files[n])
    ELSE ScanTree(repo, tracked_files, n + 1,
                  ScanFile(repo[tracked_files[n]].lines, tracked_files[n], acc))

\* mutant: the absent file that is named is the last one of tracked_files
collect_actual_last_absent(repo, tracked_files) ==
    LET absent == {i \in 1..Len(tracked_files) : ~repo[tracked_files[i]].exists}
    IN  IF absent = {}
        THEN ScanTree(repo, tracked_files, 1, [counter |-> EmptyCounter, total |-> 0])
        ELSE Raised("tracked_not_found", 0,
                    tracked_files[CHOOSE i \in absent : \A j \in absent : j <= i])

collect_actual(repo, tracked_files) ==
    ScanTree(repo, tracked_files, 1, [counter |-> EmptyCounter, total |-> 0])

-----------------------------------------------------------------------------
(* describe: the counter as sorted (path, symbol, count) rows *)

KeyLess(a, b) == StrLess(a[1], b[1]) \/ (a[1] = b[1] /\ StrLess(a[2], b[2]))

RECURSIVE SortedRows(_, _)
SortedRows(counter, keys) ==
    IF keys = {} THEN <<>>
    ELSE LET k == CHOOSE x \in keys : \A y \in keys \ {x} : KeyLess(x, y)
         IN  <<[path |-> k[1], symbol |-> k[2], count |-> counter[k]]>>
             \o SortedRows(counter, keys \ {k})

describe(counter) == SortedRows(counter, DOMAIN counter)

-----------------------------------------------------------------------------
(* main: parse, scan, reconcile *)

Msg == [kind |-> "", what |-> "", lineno |-> 0, path |-> <<>>,
        expected |-> <<>>, actual |-> <<>>, total |-> 0, files |-> 0]

\* fail(str(exc)): "error: <the ValueError's message>"
FailMessage(r) ==
    [Msg EXCEPT !.kind = "error", !.what = r.kind, !.lineno = r.lineno, !.path = r.path]

\* "error: sync reply allowlist mismatch ... expected ... actual ..."
MismatchReport(expected, actual) ==
    [Msg EXCEPT !.kind = "mismatch", !.expected = describe(expected),
                !.actual = describe(actual)]

\* "sync reply allowlist OK (<total> callsites across <n> files)"
SuccessLine(total, files) ==
    [Msg EXCEPT !.kind = "ok", !.total = total, !.files = files]

\* fail("internal error: equal counters but different totals ...")
InternalError == [Msg EXCEPT !.kind = "error", !.what = "internal"]

\* main(), line 161: parse_allowlist; a ValueError ends the run with fail()
RunParse ==
    /\ pc = "parse"
    /\ parsed' = parse_allowlist(allowlist, DEFAULT_TRACKED_FILES)
    /\ IF parsed'.status = "error"
       THEN /\ stderr' = Append(stderr, FailMessage(parsed'))
            /\ exitStatus' = 1
            /\ pc' = "done"
       ELSE /\ pc' = "scan"
            /\ UNCHANGED <<stderr, exitStatus>>
    /\ UNCHANGED <<allowlist, tree, scanned, stdout, prev, lastEdit>>

\* main(), line 162: collect_actual; a ValueError ends the run with fail()
RunScan ==
    /\ pc = "scan"
    /\ scanned' = collect_actual(tree, DEFAULT_TRACKED_FILES)
    /\ IF scanned'.status = "error"
       THEN /\ stderr' = Append(stderr, FailMessage(scanned'))
            /\ exitStatus' = 1
            /\ pc' = "done"
       ELSE /\ pc' = "reconcile"
            /\ UNCHANGED <<stderr, exitStatus>>
    /\ UNCHANGED <<allowlist, tree, parsed, stdout, prev, lastEdit>>

\* mutant: the success line is printed before the counters are compared
ReconcilePrintFirst ==
    /\ pc = "reconcile"
    /\ stdout' = Append(stdout, SuccessLine(scanned.total, Len(DEFAULT_TRACKED_FILES)))
    /\ IF CounterNotEqual(parsed.counter, scanned.counter)
       THEN /\ stderr' = Append(stderr, MismatchReport(parsed.counter, scanned.counter))
            /\ exitStatus' = 1
       ELSE IF parsed.total # scanned.total
            THEN /\ stderr' = Append(stderr, InternalError)
                 /\ exitStatus' = 1
            ELSE /\ exitStatus' = 0
                 /\ UNCHANGED stderr
    /\ pc' = "done"
    /\ UNCHANGED <<allowlist, tree, parsed, scanned, prev, lastEdit>>

\* main(), lines 166-190: compare the counters, report, return
Reconcile ==
    /\ pc = "reconcile"
    /\ IF CounterNotEqual(parsed.counter, scanned.counter)
       THEN /\ stderr' = Append(stderr, MismatchReport(parsed.counter, scanned.counter))
            /\ exitStatus' = 1
            /\ UNCHANGED stdout
       ELSE /\ stdout' = Append(stdout,
                                SuccessLine(scanned.total, Len(DEFAULT_TRACKED_FILES)))
            /\ IF parsed.total # scanned.total
               THEN /\ stderr' = Append(stderr, InternalError)
                    /\ exitStatus' = 1
               ELSE /\ exitStatus' = 0
                    /\ UNCHANGED stderr
    /\ pc' = "done"
    /\ UNCHANGED <<allowlist, tree, parsed, scanned, prev, lastEdit>>

-----------------------------------------------------------------------------
(* The environment: an edit of a tracked file between two runs *)

NoEdit == [mode |-> "", path |-> <<>>, symbol |-> <<>>, n |-> 0, onComment |-> FALSE]

NoPrev == [parsed |-> NoResult, scanned |-> NoResult, exitStatus |-> -1]

\* the text of a call of symbol: "symbol();"
Call(symbol) == symbol \o <<"(", ")", ";">>

RECURSIVE Repeat(_, _)
Repeat(text, n) == IF n = 0 THEN <<>> ELSE text \o Repeat(text, n - 1)

InsertLine(lines, k, text) ==
    SubSeq(lines, 1, k - 1) \o <<text>> \o SubSeq(lines, k, Len(lines))

\* one tracked file is edited: n calls of symbol are inserted as a new line k, or
\* at the start or the end of line k
EditTree(f, mode, k, symbol, n) ==
    LET lines == tree[f].lines
        text  == Repeat(Call(symbol), n)
        new   == CASE mode = "line"    -> InsertLine(lines, k, text)
                   [] mode = "prepend" -> [lines EXCEPT ![k] = text \o <<" ">> \o @]
                   [] mode = "append"  -> [lines EXCEPT ![k] = @ \o <<" ">> \o text]
    IN  /\ pc = "done"
        /\ lastEdit = NoEdit
        /\ tree[f].exists
        /\ k \in 1..(IF mode = "line" THEN Len(lines) + 1 ELSE Len(lines))
        /\ tree' = [tree EXCEPT ![f] = File(new)]
        /\ lastEdit' = [mode |-> mode, path |-> f, symbol |-> symbol, n |-> n,
                        onComment |-> mode # "line" /\ CommentLine(lines[k])]
        /\ prev' = [parsed |-> parsed, scanned |-> scanned, exitStatus |-> exitStatus]
        /\ pc' = "parse"
        /\ parsed' = NoResult
        /\ scanned' = NoResult
        /\ exitStatus' = -1
        /\ stdout' = <<>>
        /\ stderr' = <<>>
        /\ UNCHANGED allowlist

-----------------------------------------------------------------------------
(* Inputs: allowlist files and source trees *)

sym_a    == <<"x","c","b","_","a","_","r","e","p","l","y">>
sym_b    == <<"x","c","b","_","b","_","r","e","p","l","y">>
helper_a == <<"x","c","b","_","a","_","f","r","o","m","_","r","e","p","l","y">>

TrackedSet == {DEFAULT_TRACKED_FILES[i] : i \in 1..Len(DEFAULT_TRACKED_FILES)}

SeqsUpTo(S, n) == UNION {[1..k -> S] : k \in 0..n}

\* "path|symbol|count|rationale"
Rule(path, symbol, count, rationale) ==
    path \o <<"|">> \o symbol \o <<"|">> \o count \o <<"|">> \o rationale

Bound2  == <<"b","o","u","n","d","<","=","2">>
NoBound == <<"n","o"," ","b","o","u","n","d">>

GoodRules ==
    {Rule(menu_c, sym_a, <<c>>, Bound2) : c \in {"1", "2", "3"}}
    \cup {Rule(menu_c, sym_b, <<"1">>, Bound2),
          \* padded fields, a signed count, a separator inside the rationale
          <<" ">> \o menu_c \o <<" ", "|", " ">> \o sym_a \o <<" ", "|", " ", "+", "2", " ", "|">>
              \o <<"x", "|">> \o Bound2 \o <<" ">>}

BadRules ==
    {menu_c \o <<"|">> \o sym_a \o <<"|", "1">>,
     Rule(<<"s","r","c","/","x",".","c">>, sym_a, <<"1">>, Bound2),
     Rule(menu_c, <<"b","_","r","e","p","l","y">>, <<"1">>, Bound2),
     Rule(menu_c, helper_a, <<"1">>, Bound2),
     Rule(menu_c, <<"a","_","f","r","o","m","_","r","e","p","l","y">>, <<"1">>, Bound2),
     Rule(menu_c, sym_a, <<"0">>, Bound2),
     Rule(menu_c, sym_a, <<"-", "1">>, Bound2),
     Rule(menu_c, sym_a, <<"x">>, Bound2),
     Rule(menu_c, sym_a, <<"1">>, NoBound),
     Rule(menu_c, sym_a, <<"2">>, <<"B","o","u","n","d","<","=","2">>)}

SkippedLines == {<<>>, <<" ", "#", "x">>}

AllowLinesRich == GoodRules \cup BadRules \cup SkippedLines

AllowLinesFew ==
    {Rule(menu_c, sym_a, <<"1">>, Bound2),
     Rule(menu_c, sym_b, <<"1">>, Bound2),
     Rule(wm_c, sym_a, <<"1">>, Bound2),
     Rule(menu_c, sym_a, <<"1">>, NoBound)}

\* the tree with the given lines in src/menu.c and src/wm.c, the other tracked
\* files empty, and the files of missing absent
Tree(menuLines, wmLines, missing) ==
    [f \in TrackedSet |->
        IF f \in missing THEN Missing
        ELSE IF f = menu_c THEN File(menuLines)
        ELSE IF f = wm_c THEN File(wmLines)
        ELSE File(<<>>)]

CallA == Call(sym_a)
CallB == Call(sym_b)

\* five call sites of sym_a in src/menu.c; one; one, and a tracked file missing
TreesFew ==
    {Tree(<<CallA \o CallA \o CallA, CallA \o CallA>>, <<>>, {}),
     Tree(<<CallA>>, <<>>, {}),
     Tree(<<CallA>>, <<>>, {wm_c})}

\* the pieces a source line is put together from
Fragments ==
    {sym_a, sym_a \o <<"(">>, xcb_poll_for_reply, helper_a,
     <<"(">>, <<" ">>, <<"\t">>, <<"/", "/">>, <<"x">>}

RECURSIVE FragLines(_)
FragLines(n) ==
    IF n = 0 THEN {<<>>}
    ELSE FragLines(n - 1) \cup {l \o f : l \in FragLines(n - 1), f \in Fragments}

SrcLinesFew == {CallA, sym_b \o <<" ", "(">>, <<"/", "/", " ">> \o CallA}

MissingSets == {{}, {menu_c}, {wm_desktop_c}, {wm_c, wm_input_keys_c}}

\* allowlists put together from the rule lines, few trees
InitParse ==
    /\ allowlist \in {File(ls) : ls \in SeqsUpTo(AllowLinesRich, MaxRules)}
    /\ tree \in TreesFew

\* few allowlists, a source line put together from the fragments
InitScan ==
    /\ allowlist \in {File(<<>>), File(<<Rule(menu_c, sym_a, <<"1">>, Bound2)>>)}
    /\ tree \in {Tree(<<l>>, <<>>, {}) : l \in FragLines(MaxFrags)}

InitMixed ==
    /\ allowlist \in {Missing} \cup {File(ls) : ls \in SeqsUpTo(AllowLinesFew, MaxRules)}
    /\ tree \in {Tree(m, w, x) : m \in SeqsUpTo(SrcLinesFew, MaxSrcLines),
                                 w \in {<<>>, <<CallA>>}, x \in MissingSets}

InitRun ==
    /\ pc = "parse"
    /\ parsed = NoResult
    /\ scanned = NoResult
    /\ exitStatus = -1
    /\ stdout = <<>>
    /\ stderr = <<>>
    /\ prev = NoPrev
    /\ lastEdit = NoEdit

Next == RunParse \/ RunScan \/ Reconcile

\* one run on allowlists and trees that agree, differ, or are not there
Init == InitMixed /\ InitRun

Spec == Init /\ [][Next]_vars

\* one run on each allowlist put together from the rule lines
InitParseRun == InitParse /\ InitRun

SpecParse == InitParseRun /\ [][Next]_vars

\* one run on each source line put together from the fragments
InitScanRun == InitScan /\ InitRun

SpecScan == InitScanRun /\ [][Next]_vars

-----------------------------------------------------------------------------
(* Two runs with one edit of the tree between them *)

EditSrcLines ==
    {CallA, <<"/", "/", " ">> \o CallB, sym_a, <<" ", "/", "/">>}

InitEdit ==
    /\ allowlist \in {File(<<>>),
                      File(<<Rule(menu_c, sym_a, <<"1">>, Bound2)>>),
                      File(<<Rule(menu_c, sym_a, <<"2">>, Bound2)>>),
                      File(<<Rule(menu_c, sym_a, <<"1">>, Bound2),
                             Rule(wm_c, sym_a, <<"1">>, Bound2)>>)}
    /\ tree \in {Tree(m, w, {}) : m \in SeqsUpTo(EditSrcLines, MaxEditLines),
                                  w \in {<<>>, <<CallA>>}}
    /\ InitRun

InsertedSymbols == {xcb_poll_for_reply, helper_a, sym_a, sym_b}

Edit ==
    \E f \in TrackedSet, mode \in {"line", "prepend", "append"},
       k \in 1..(MaxEditLines + 1), symbol \in InsertedSymbols, n \in 1..MaxInserted :
        EditTree(f, mode, k, symbol, n)

NextEdit == RunParse \/ RunScan \/ Reconcile \/ Edit

SpecEdit == InitEdit /\ [][NextEdit]_vars

-----------------------------------------------------------------------------
(* What the claims speak of *)

ExpectedCounter == parsed.counter
ActualCounter   == scanned.counter

AllKeys == DOMAIN ExpectedCounter \cup DOMAIN ActualCounter

\* the number of times key is in a counter, as a multiset
Times(counter, key) == IF key \in DOMAIN counter THEN counter[key] ELSE 0

EqualAsMultisets(c, d) ==
    \A key \in DOMAIN c \cup DOMAIN d : Times(c, key) = Times(d, key)

AllTrackedExist == \A f \in TrackedSet : tree[f].exists

\* the rule lines of the allowlist: neither blank nor a comment
RuleLineNumbers ==
    {i \in 1..Len(allowlist.lines) :
        LET line == strip(allowlist.lines[i])
        IN  line # <<>> /\ line[1] # "#"}

Fields(i) == Parts(allowlist.lines[i])

\* the rule lines that break a rule of the grammar
OffendingLineNumbers ==
    {i \in RuleLineNumbers : RuleError(allowlist.lines[i], TrackedSet) # ""}

Lowest(S) == CHOOSE i \in S : \A j \in S : i <= j

RECURSIVE SumCounts(_)
SumCounts(S) ==
    IF S = {} THEN 0
    ELSE LET i == CHOOSE x \in S : TRUE
         IN  int(Fields(i)[3]).value + SumCounts(S \ {i})

RuleKey(i) == <<Fields(i)[1], Fields(i)[2]>>

RulesWithKey(key) == {i \in RuleLineNumbers : RuleKey(i) = key}

-----------------------------------------------------------------------------
(* C1: main() returns 0 exactly when parse_allowlist succeeded, every       *)
(* tracked file exists and the expected counter equals the actual counter  *)
(* as multisets; in every other case it returns 1, and nothing else.       *)
C1_ExitStatus ==
    pc = "done" =>
        /\ exitStatus \in {0, 1}
        /\ exitStatus = 0 <=>
              /\ parsed.status = "ok"
              /\ AllTrackedExist
              /\ scanned.status = "ok"
              /\ EqualAsMultisets(ExpectedCounter, ActualCounter)

C1_Witness ==
    /\ pc = "done"
    /\ exitStatus = 0
    /\ Cardinality(DOMAIN ExpectedCounter) = 2

(* C2: the comparison is per key: a declared key with no occurrence, an     *)
(* occurring key that is not declared, and equal totals spread differently *)
(* over the keys each end the run with the mismatch report and status 1.   *)
C2_StrictPerKey ==
    (pc = "done" /\ parsed.status = "ok" /\ scanned.status = "ok") =>
        LET stale      == DOMAIN ExpectedCounter \ DOMAIN ActualCounter # {}
            undeclared == DOMAIN ActualCounter \ DOMAIN ExpectedCounter # {}
            spread     == /\ parsed.total = scanned.total
                          /\ \E key \in AllKeys :
                                Times(ExpectedCounter, key) # Times(ActualCounter, key)
        IN  (stale \/ undeclared \/ spread) =>
                /\ exitStatus = 1
                /\ stdout = <<>>
                /\ Len(stderr) = 1
                /\ stderr[1].kind = "mismatch"

C2_Witness ==
    /\ pc = "done"
    /\ parsed.status = "ok"
    /\ scanned.status = "ok"
    /\ parsed.total = scanned.total
    /\ parsed.total > 0
    /\ DOMAIN ActualCounter \ DOMAIN ExpectedCounter # {}
    /\ exitStatus = 1

(* C3: for a valid allowlist the expected counter holds, at each key, the   *)
(* sum of the counts of the rule lines with that key, and the expected     *)
(* total is the sum of the counts of all rule lines; a tree with exactly   *)
(* those occurrences reconciles.                                           *)
C3_CountsAccumulate ==
    (pc # "parse" /\ parsed.status = "ok") =>
        /\ DOMAIN ExpectedCounter = {RuleKey(i) : i \in RuleLineNumbers}
        /\ \A key \in DOMAIN ExpectedCounter :
              ExpectedCounter[key] = SumCounts(RulesWithKey(key))
        /\ parsed.total = SumCounts(RuleLineNumbers)
        /\ (/\ pc = "done"
            /\ scanned.status = "ok"
            /\ DOMAIN ActualCounter = {RuleKey(i) : i \in RuleLineNumbers}
            /\ \A key \in DOMAIN ActualCounter :
                  ActualCounter[key] = SumCounts(RulesWithKey(key)))
           => exitStatus = 0

\* rows with counts 2 and 3 for one key, reconciled against 5 occurrences
C3_Witness ==
    /\ pc = "done"
    /\ exitStatus = 0
    /\ \E i, j \in RuleLineNumbers :
          /\ i # j
          /\ RuleKey(i) = RuleKey(j)
          /\ int(Fields(i)[3]).value = 2
          /\ int(Fields(j)[3]).value = 3
          /\ ActualCounter[RuleKey(i)] = 5

(* C4: when rule lines of the allowlist offend, the run ends at the first   *)
(* of them: the one error printed carries its line number, no expected     *)
(* counter is returned, the scanner is not run, and no missing-file error, *)
(* mismatch report or success line is printed, whatever the tree holds.    *)
C4_FirstOffendingLine ==
    (allowlist.exists /\ OffendingLineNumbers # {}) =>
        /\ pc \in {"parse", "done"}
        /\ scanned = NoResult
        /\ stdout = <<>>
        /\ pc = "done" =>
              /\ exitStatus = 1
              /\ parsed.status = "error"
              /\ parsed.lineno = Lowest(OffendingLineNumbers)
              /\ parsed.counter = EmptyCounter
              /\ stderr = <<FailMessage(parsed)>>
              /\ stderr[1].lineno = Lowest(OffendingLineNumbers)
              /\ stderr[1].what \notin {"tracked_not_found", "allowlist_not_found"}

\* the second line offends, after a line that passed, and a tracked file is missing
C4_Witness ==
    /\ pc = "done"
    /\ allowlist.exists
    /\ OffendingLineNumbers # {}
    /\ Lowest(OffendingLineNumbers) = 2
    /\ 1 \in RuleLineNumbers
    /\ ~AllTrackedExist

(* C5: a rule line whose rationale field lacks "bound<=" makes the run      *)
(* return 1, whether or not the declared counts equal the scanned ones.    *)
C5_RationaleNeedsBound ==
    (/\ pc = "done"
     /\ allowlist.exists
     /\ \E i \in RuleLineNumbers :
           Len(Fields(i)) = 4 /\ ~contains(Fields(i)[4], BoundMarker))
    => exitStatus = 1

\* the only fault is the rationale: the declared count is the scanned count
C5_Witness ==
    /\ pc = "done"
    /\ parsed.kind = "rationale"
    /\ parsed.lineno = 1
    /\ Len(allowlist.lines) = 1
    /\ AllTrackedExist
    /\ collect_actual(tree, DEFAULT_TRACKED_FILES).counter
          = (RuleKey(1) :> int(Fields(1)[3]).value)

(* C6: a rule line whose symbol ends with "_from_reply" is rejected by      *)
(* parse_allowlist and the run returns 1, also when the rest of the line   *)
(* is well formed; no expected counter has a key with such a symbol.       *)
C6_ParseHelperRejected ==
    /\ \A key \in DOMAIN ExpectedCounter : ~endswith(key[2], FromReplySuffix)
    /\ (/\ pc # "parse"
        /\ allowlist.exists
        /\ \E i \in RuleLineNumbers :
              Len(Fields(i)) >= 2 /\ endswith(Fields(i)[2], FromReplySuffix))
       => /\ parsed.status = "error"
          /\ pc = "done"
          /\ exitStatus = 1

\* prefix, suffix, tracked path, positive count and bound marker are all there
C6_Witness ==
    /\ pc = "done"
    /\ parsed.kind = "helper"
    /\ LET f == Fields(parsed.lineno)
       IN  /\ f[1] \in TrackedSet
           /\ startswith(f[2], XcbPrefix)
           /\ endswith(f[2], ReplySuffix)
           /\ int(f[3]).ok
           /\ int(f[3]).value > 0
           /\ contains(f[4], BoundMarker)

-----------------------------------------------------------------------------
(* Call sites, said without the regular expression *)

ScanDone == pc \in {"reconcile", "done"} /\ scanned.status = "ok"

\* a word starts at position i of s
WordStart(s, i) == s[i] \in WordChar /\ (i = 1 \/ s[i - 1] \notin WordChar)

\* the last position of the word that holds position i
RECURSIVE WordEnd(_, _)
WordEnd(s, i) == IF i < Len(s) /\ s[i + 1] \in WordChar THEN WordEnd(s, i + 1) ELSE i

Word(s, i) == SubSeq(s, i, WordEnd(s, i))

\* "xcb_", a body that is not empty, "_reply"
ReplySymbol(w) ==
    Len(w) >= Len(XcbPrefix) + 1 + Len(ReplySuffix)
    /\ startswith(w, XcbPrefix) /\ endswith(w, ReplySuffix)

CountedSymbol(w) ==
    ReplySymbol(w) /\ w # xcb_poll_for_reply /\ ~endswith(w, FromReplySuffix)

\* "(" is the character right after the word at i
ParenRightAfter(s, i) == WordEnd(s, i) < Len(s) /\ s[WordEnd(s, i) + 1] = "("

\* "(" follows the word at i, with nothing but whitespace between
ParenAfterSpaces(s, i) ==
    \E p \in (WordEnd(s, i) + 1)..Len(s) :
        s[p] = "(" /\ \A q \in (WordEnd(s, i) + 1)..(p - 1) : s[q] \in Whitespace

\* the first characters of the line that are not whitespace are "//"
BeginsWithSlashes(raw) ==
    \E i \in 1..(Len(raw) - 1) :
        /\ raw[i] = "/" /\ raw[i + 1] = "/"
        /\ \A j \in 1..(i - 1) : raw[j] \in Whitespace

\* <<line number, position>> of the counted symbols of file f that Follows accepts
Occurrences(f, Follows(_, _)) ==
    LET lines == tree[f].lines
    IN  UNION {{<<ln, i>> : i \in {k \in 1..Len(lines[ln]) :
                                     /\ WordStart(lines[ln], k)
                                     /\ CountedSymbol(Word(lines[ln], k))
                                     /\ Follows(lines[ln], k)}} :
               ln \in {l \in 1..Len(lines) : ~CommentLine(lines[l])}}

\* the occurrences in all tracked files
AllOccurrences(Follows(_, _)) ==
    UNION {{<<f, o>> : o \in Occurrences(f, Follows)} : f \in TrackedSet}

\* the actual counter counts exactly the occurrences that Follows accepts
CountsAre(Follows(_, _)) ==
    /\ scanned.total = Cardinality(AllOccurrences(Follows))
    /\ \A f \in TrackedSet :
          LET occ == Occurrences(f, Follows)
              sym(o) == Word(tree[f].lines[o[1]], o[2])
          IN  /\ \A o \in occ : <<f, sym(o)>> \in DOMAIN ActualCounter
              /\ \A key \in DOMAIN ActualCounter :
                    key[1] = f =>
                        ActualCounter[key] = Cardinality({o \in occ : sym(o) = key[2]})

(* C9, as claimed: a symbol is counted as a call site only when "(" is the  *)
(* character right after it; whitespace between the two stops the count.   *)
C9_ImmediateParen == ScanDone => CountsAre(ParenRightAfter)

(* C9, amended: a symbol (xcb_, a body that is not empty, _reply) is        *)
(* counted as a call site exactly when "(" follows it with nothing but     *)
(* whitespace between; any other character between the two stops the count.*)
C9_ParenAfterSpaces == ScanDone => CountsAre(ParenAfterSpaces)

\* a counted call site with whitespace before its "("
C9_Witness ==
    /\ ScanDone
    /\ scanned.total = 1
    /\ \E i \in 1..Len(tree[menu_c].lines[1]) :
          LET line == tree[menu_c].lines[1]
          IN  /\ WordStart(line, i)
              /\ CountedSymbol(Word(line, i))
              /\ ParenAfterSpaces(line, i)
              /\ ~ParenRightAfter(line, i)

\* the symbols collect_actual counts in one line that it scans
LiveSymbols(raw) == SelectSeq(finditer(raw, 1), LAMBDA w : ~Excluded(w))

\* <<line number, match number>> of the counted matches in the lines of file f
\* that do not begin with "//"
LiveMatches(f) ==
    LET lines == tree[f].lines
    IN  UNION {{<<ln, j>> : j \in 1..Len(LiveSymbols(lines[ln]))} :
               ln \in {l \in 1..Len(lines) : ~BeginsWithSlashes(lines[l])}}

(* C10: a line whose trimmed content begins with "//" adds nothing to the   *)
(* actual counter, whatever call sites it holds; every other line is       *)
(* scanned whole, so call sites after a "//" further in the line count.    *)
C10_CommentLines ==
    ScanDone =>
        \A f \in TrackedSet :
            LET sym(m) == LiveSymbols(tree[f].lines[m[1]])[m[2]]
            IN  /\ \A m \in LiveMatches(f) : <<f, sym(m)>> \in DOMAIN ActualCounter
                /\ \A key \in DOMAIN ActualCounter :
                      key[1] = f =>
                          ActualCounter[key]
                              = Cardinality({m \in LiveMatches(f) : sym(m) = key[2]})

\* a call site after "//" in a line that starts with code is counted
C10_Witness ==
    /\ ScanDone
    /\ LET line == tree[menu_c].lines[1]
       IN  /\ line = <<"x", "/", "/">> \o sym_a \o <<"(">>
           /\ ActualCounter = (<<menu_c, sym_a>> :> 1)

-----------------------------------------------------------------------------
(* The edit between two runs *)

EditedKey == <<lastEdit.path, lastEdit.symbol>>

\* call sites of an ignored symbol or of a parse helper were inserted
IgnoredInserted ==
    /\ lastEdit # NoEdit
    /\ lastEdit.symbol = xcb_poll_for_reply \/ endswith(lastEdit.symbol, FromReplySuffix)

\* the insertion put code in front of the "//" of a comment line
BeforeComment == lastEdit.mode = "prepend" /\ lastEdit.onComment

\* one call site of a counted symbol was added where the scanner reads
OneLiveInserted ==
    /\ lastEdit # NoEdit
    /\ CountedSymbol(lastEdit.symbol)
    /\ lastEdit.n = 1
    /\ ~lastEdit.onComment

(* C7, as claimed: inserting call sites of xcb_poll_for_reply or of a       *)
(* symbol ending in "_from_reply" anywhere in a tracked file leaves the    *)
(* actual counter and its total as they were.                              *)
C7_IgnoredInsertAnywhere ==
    (ScanDone /\ IgnoredInserted /\ prev.scanned.status = "ok") =>
        /\ ActualCounter = prev.scanned.counter
        /\ scanned.total = prev.scanned.total

(* C7, amended: inserting such call sites as lines of their own, at the end *)
(* of a line, or at the start of a line that does not begin with "//",     *)
(* leaves the actual counter and its total as they were.                   *)
C7_IgnoredInsert ==
    (ScanDone /\ IgnoredInserted /\ ~BeforeComment /\ prev.scanned.status = "ok") =>
        /\ ActualCounter = prev.scanned.counter
        /\ scanned.total = prev.scanned.total

\* several ignored call sites were inserted into a file that has counted ones
C7_Witness ==
    /\ ScanDone
    /\ IgnoredInserted
    /\ ~BeforeComment
    /\ lastEdit.n > 1
    /\ lastEdit.mode = "append"
    /\ lastEdit.path = menu_c
    /\ <<menu_c, sym_a>> \in DOMAIN prev.scanned.counter

\* the count of the key in the rows of a report
RowCount(rows, key) ==
    IF \E j \in 1..Len(rows) : <<rows[j].path, rows[j].symbol>> = key
    THEN rows[CHOOSE j \in 1..Len(rows) : <<rows[j].path, rows[j].symbol>> = key].count
    ELSE 0

RowKeys(rows) == {<<rows[j].path, rows[j].symbol>> : j \in 1..Len(rows)}

-----------------------------------------------------------------------------
(* A tracked file is absent *)

\* the positions in DEFAULT_TRACKED_FILES of the files that are not on disk
AbsentPositions ==
    {i \in 1..Len(DEFAULT_TRACKED_FILES) : ~tree[DEFAULT_TRACKED_FILES[i]].exists}

FirstAbsent == DEFAULT_TRACKED_FILES[Lowest(AbsentPositions)]

(* C11: when parse_allowlist succeeded and a tracked file is absent, the    *)
(* run ends before the counters are compared and returns 1; the one error  *)
(* printed names the first absent file in the order of the tracked files,  *)
(* no actual counter is returned, and neither a mismatch report nor a      *)
(* success line is printed, whether or not the allowlist has a rule for    *)
(* the absent file.                                                        *)
C11_AbsentTrackedFile ==
    (parsed.status = "ok" /\ AbsentPositions # {}) =>
        /\ pc \in {"scan", "done"}
        /\ stdout = <<>>
        /\ pc = "scan" => scanned = NoResult /\ stderr = <<>> /\ exitStatus = -1
        /\ pc = "done" =>
              /\ exitStatus = 1
              /\ scanned.status = "error"
              /\ scanned.counter = EmptyCounter
              /\ Len(stderr) = 1
              /\ stderr[1].kind = "error"
              /\ stderr[1].what = "tracked_not_found"
              /\ stderr[1].path = FirstAbsent

\* two files are absent, the allowlist has rules, none of them for an absent
\* file, and what it declares is what the files that are there hold
C11_Witness ==
    /\ pc = "done"
    /\ parsed.status = "ok"
    /\ Cardinality(AbsentPositions) = 2
    /\ 1 \notin AbsentPositions
    /\ ExpectedCounter = (<<menu_c, sym_a>> :> 1)
    /\ tree[menu_c].lines = <<CallA>>
    /\ stderr[1].path = wm_c

-----------------------------------------------------------------------------
(* What a run prints *)

SuccessLines == {i \in 1..Len(stdout) : stdout[i].kind = "ok"}

(* C12: a finished run has printed the success line to stdout exactly when  *)
(* it returned 0.  A run that returned 1 printed one message to stderr (an *)
(* error or the mismatch report) and nothing to stdout; a run that         *)
(* returned 0 printed the one success line, with the total of the scan and *)
(* the number of tracked files, and nothing to stderr.  Nothing is printed *)
(* before the run ends.                                                    *)
C12_Streams ==
    /\ pc # "done" => stdout = <<>> /\ stderr = <<>>
    /\ pc = "done" =>
          /\ exitStatus \in {0, 1}
          /\ SuccessLines # {} <=> exitStatus = 0
          /\ exitStatus = 1 =>
                /\ stdout = <<>>
                /\ Len(stderr) = 1
                /\ stderr[1].kind \in {"error", "mismatch"}
          /\ exitStatus = 0 =>
                /\ stderr = <<>>
                /\ Len(stdout) = 1
                /\ stdout[1].kind = "ok"
                /\ stdout[1].total = scanned.total
                /\ stdout[1].total = CounterSum(ActualCounter)
                /\ stdout[1].files = Cardinality(TrackedSet)

\* a run that returned 0 on call sites in two files
C12_Witness ==
    /\ pc = "done"
    /\ exitStatus = 0
    /\ Len(stdout) = 1
    /\ stdout[1].total = 2
    /\ stdout[1].files = Len(DEFAULT_TRACKED_FILES)
    /\ Cardinality(DOMAIN ActualCounter) = 2
    /\ stderr = <<>>

-----------------------------------------------------------------------------
(* Totals *)

\* the counts of a counter, added up key by key
RECURSIVE AddUp(_, _)
AddUp(counter, keys) ==
    IF keys = {} THEN 0
    ELSE LET key == CHOOSE k \in keys : \A other \in keys : ~KeyLess(other, k)
         IN  Times(counter, key) + AddUp(counter, keys \ {key})

InternalErrorPrinted == \E i \in 1..Len(stderr) : stderr[i].what = "internal"

(* C13: when parse_allowlist and collect_actual have both returned, the     *)
(* expected total is the sum of the counts of the expected counter, the    *)
(* actual total is the sum of the counts of the actual counter, and every  *)
(* count stored in either is at least 1; so counters that are equal have   *)
(* equal totals, and main never prints the internal error of equal         *)
(* counters with different totals.                                         *)
C13_TotalsAreSums ==
    /\ (parsed.status = "ok" /\ scanned.status = "ok") =>
          /\ parsed.total = AddUp(ExpectedCounter, DOMAIN ExpectedCounter)
          /\ scanned.total = AddUp(ActualCounter, DOMAIN ActualCounter)
          /\ \A key \in DOMAIN ExpectedCounter : ExpectedCounter[key] >= 1
          /\ \A key \in DOMAIN ActualCounter : ActualCounter[key] >= 1
          /\ EqualAsMultisets(ExpectedCounter, ActualCounter)
                => parsed.total = scanned.total
    /\ ~InternalErrorPrinted

\* equal counters whose totals are not their number of keys: the comparison of
\* the totals at the end of main was made and found them equal
C13_Witness ==
    /\ pc = "done"
    /\ parsed.status = "ok"
    /\ scanned.status = "ok"
    /\ EqualAsMultisets(ExpectedCounter, ActualCounter)
    /\ \E key \in DOMAIN ExpectedCounter : ExpectedCounter[key] > 1
    /\ parsed.total > Cardinality(DOMAIN ExpectedCounter)
    /\ parsed.total = scanned.total

=============================================================================
